---- MODULE Spec2Model ----
(***************************************************************************)
(* Department Voice Assistant: the Voice UI (frontend/app/page.js) and the *)
(* proxy route POST /api/ask that forwards a question to the backend.      *)
(*                                                                         *)
(* Question texts are sequences of characters so that trim() is computed.  *)
(* Messages, answers and routes are strings; a missing JSON field is the   *)
(* value Undefined.                                                        *)
(***************************************************************************)
EXTENDS Naturals, Sequences, FiniteSets, TLC

VARIABLES
    \* ---- Voice UI (HomePage) ----
    question, answer, route, listening, loading, error,
    speechSupported,   \* window.SpeechRecognition is available
    speechSynthesis,   \* "speechSynthesis" in window
    recognitionRef,    \* recognitionRef.current: a session id, or 0 for null
    sessions,          \* the recognizer objects created so far, by id
    utterance,         \* the text window.speechSynthesis was given to speak
    calls,             \* the askQuestion invocations, by id
    latest,            \* the answer returned for the most recently submitted question
    \* ---- proxy route (POST) ----
    ppc,               \* where the handler is: "idle", "awaitBackend" or "done"
    pbody,             \* the request body it was given
    forwarded,         \* the call it made to the backend, if any
    pout,              \* how that call settled
    presp              \* the response it returned

\* What the browser offers; it does not change while the page is open.
platform == <<speechSupported, speechSynthesis>>

uiVars == <<question, answer, route, listening, loading, error, platform,
            recognitionRef, sessions, utterance, calls, latest>>
proxyVars == <<ppc, pbody, forwarded, pout, presp>>
vars == <<uiVars, proxyVars>>

-----------------------------------------------------------------------------
(* Bounds: the page submits at most MaxCalls questions and creates at most *)
(* MaxSessions recognizers; a click or result that would exceed them is not taken. *)
MaxCalls == 2
MaxSessions == 2

-----------------------------------------------------------------------------
(* JavaScript values *)

Undefined == "<undefined>"
Truthy(v) == v \notin {Undefined, ""}
OrElse(v, d) == IF Truthy(v) THEN v ELSE d

IsWhitespace(c) == c \in {" ", "\n"}

RECURSIVE TrimStart(_)
TrimStart(s) ==
    IF s = <<>> THEN <<>>
    ELSE IF IsWhitespace(Head(s)) THEN TrimStart(Tail(s)) ELSE s

RECURSIVE TrimEnd(_)
TrimEnd(s) ==
    IF s = <<>> THEN <<>>
    ELSE IF IsWhitespace(s[Len(s)]) THEN TrimEnd(SubSeq(s, 1, Len(s) - 1)) ELSE s

\* String.prototype.trim
trim(s) == TrimEnd(TrimStart(s))

\* The texts a user can type or a recognizer can transcribe.
Texts == { <<>>, <<" ", "\n">>, <<" ", "a", " ">> }

\* JSON payloads: an object with optional answer, route and detail, JSON null,
\* or a body that is not JSON at all.
Obj(a, r, d) == [kind |-> "obj", answer |-> a, route |-> r, detail |-> d]
DetailObj(d) == Obj(Undefined, Undefined, d)
JsonNull == [kind |-> "null", answer |-> Undefined, route |-> Undefined, detail |-> Undefined]
Unparsable == [kind |-> "unparsable", answer |-> Undefined, route |-> Undefined,
               detail |-> Undefined]
NoPayload == [kind |-> "none", answer |-> Undefined, route |-> Undefined,
              detail |-> Undefined]

\* payload?.detail
DetailOf(p) == IF p.kind = "obj" THEN p.detail ELSE Undefined

Response(st, p) == [status |-> st, payload |-> p]
NoResponse == Response(0, NoPayload)
\* Response.ok
Ok(st) == st >= 200 /\ st <= 299

-----------------------------------------------------------------------------
(* The proxy route *)

\* Request bodies: not JSON, JSON null, or an object whose question is missing,
\* null, a string, or a non-string value (falsy such as 0, truthy such as 5).
Bodies ==
    { [kind |-> k, q |-> <<>>] : k \in {"malformed", "null", "missing", "qnull",
                                         "falsy", "truthy"} }
    \cup { [kind |-> "str", q |-> t] : t \in Texts }

QuestionBody(t) == [kind |-> "str", q |-> t]

\* What the backend call can come to: a transport error, or a status with a body.
BackendAnswers == {Undefined, "", "A1", "A2"}
BackendRoutes == {Undefined, "R1", "R2"}
BackendDetails == {Undefined, "", "D1"}
BackendStatuses == {200, 201, 400, 404, 422, 500, 503}
BackendPayloads ==
    {Unparsable, JsonNull}
    \cup { Obj(a, r, Undefined) : a \in BackendAnswers, r \in BackendRoutes }
    \cup { DetailObj(d) : d \in BackendDetails }
Outcome(n, st, p) == [net |-> n, status |-> st, payload |-> p]
TransportError == Outcome("error", 0, NoPayload)
BackendOutcomes ==
    {TransportError}
    \cup { Outcome("ok", st, p) : st \in BackendStatuses, p \in BackendPayloads }

ApiKeys == {"", "secret"}

\* backendConfig(): the key comes from the environment when the request is handled.
NoCall == [made |-> FALSE, question |-> <<>>, apiKeyHeader |-> Undefined]
BackendCall(q, key) ==
    [made |-> TRUE, question |-> q,
     apiKeyHeader |-> IF Truthy(key) THEN key ELSE Undefined]

\* A variant that validates the question as sent, without trimming it.
CleanQuestionUntrimmed(body) == IF body.kind = "str" THEN body.q ELSE <<>>

\* (body?.question || "").trim(), for a body whose question is absent, falsy or a string
CleanQuestion(body) == IF body.kind = "str" THEN trim(body.q) ELSE <<>>

\* POST, lines 27-42: parse the body, validate the question, issue the fetch.
\* done: a response was returned before any backend call.
Receive(body, key) ==
    IF body.kind \in {"malformed", "truthy"}
    THEN \* request.json() rejects, or (5).trim is not a function: the catch
         [done |-> TRUE, resp |-> Response(500, DetailObj("Failed to process request.")),
          call |-> NoCall]
    ELSE LET q == CleanQuestion(body)
         IN  IF q = <<>>
             THEN [done |-> TRUE,
                   resp |-> Response(400, DetailObj("Question is required.")),
                   call |-> NoCall]
             ELSE [done |-> FALSE, resp |-> NoResponse, call |-> BackendCall(q, key)]

\* response.json().catch(...)
ParsePayload(p) ==
    IF p.kind = "unparsable" THEN DetailObj("Invalid backend response.") ELSE p

\* POST, lines 37-55: the backend call settles and the handler answers.
Relay(out) ==
    IF out.net = "error"
    THEN Response(500, DetailObj("Failed to process request."))
    ELSE LET payload == ParsePayload(out.payload)
         IN  IF ~Ok(out.status)
             THEN Response(out.status,
                           DetailObj(OrElse(DetailOf(payload), "Backend request failed.")))
             ELSE Response(200, payload)

\* The whole handler, for one request and one settlement of its backend call.
POST(body, key, out) ==
    LET r == Receive(body, key) IN IF r.done THEN r.resp ELSE Relay(out)

\* BACKEND_API_KEY of the deployment the UI talks to; no response depends on it.
DeployedApiKey == "secret"

NoOutcome == Outcome("none", 0, NoPayload)

ProxyReceive ==
    /\ ppc \in {"idle", "done"}
    /\ \E body \in Bodies, key \in ApiKeys :
          LET r == Receive(body, key)
          IN  /\ pbody' = body
              /\ forwarded' = r.call
              /\ presp' = r.resp
              /\ ppc' = IF r.done THEN "done" ELSE "awaitBackend"
    /\ pout' = NoOutcome
    /\ UNCHANGED uiVars

ProxyBackendSettles ==
    /\ ppc = "awaitBackend"
    /\ \E out \in BackendOutcomes :
          /\ pout' = out
          /\ presp' = Relay(out)
    /\ ppc' = "done"
    /\ UNCHANGED <<pbody, forwarded>>
    /\ UNCHANGED uiVars

ProxyInit ==
    /\ ppc = "idle"
    /\ pbody = [kind |-> "null", q |-> <<>>]
    /\ forwarded = NoCall
    /\ pout = NoOutcome
    /\ presp = NoResponse

-----------------------------------------------------------------------------
(* The Voice UI *)

\* What the component renders from: the six pieces of React state.
View == <<question, answer, route, listening, loading, error>>

\* A thrown value: nothing, a string, or an Error with a message.
ErrorOf(m) == [type |-> "Error", message |-> m]

normalizeMessage(err) ==
    IF err.type = "none" THEN "Something went wrong."
    ELSE IF err.type = "string" THEN err.message
    ELSE OrElse(err.message, "Something went wrong.")

\* The recognizer's error codes; Undefined is an event without one.
VoiceErrorCodes == {Undefined, "no-speech"}

\* The answer and route of a response; NoAnswer while there is none.
Answer(a, r) == [answer |-> a, route |-> r]
NoAnswer == Answer(Undefined, Undefined)

\* speak(text): window.speechSynthesis.cancel(), then speak a new utterance;
\* nothing where the browser has no speechSynthesis.
speak(text) == IF speechSynthesis THEN utterance' = text ELSE UNCHANGED utterance

\* A variant that submits whatever it is given, blank or not.
askQuestionUnguarded(text) ==
    /\ Len(calls) < MaxCalls
    /\ loading' = TRUE
    /\ error' = ""
    /\ calls' = Append(calls, [state |-> "pending", question |-> trim(text)])
    /\ latest' = NoAnswer

\* askQuestion, lines 53-62: up to the await of fetch("/api/ask").
askQuestion(text) ==
    LET cleaned == trim(text)
    IN  IF cleaned = <<>>
        THEN UNCHANGED <<loading, error, calls, latest>>
        ELSE /\ Len(calls) < MaxCalls
             /\ loading' = TRUE
             /\ error' = ""
             /\ calls' = Append(calls, [state |-> "pending", question |-> cleaned])
             /\ latest' = NoAnswer

\* <textarea onChange>
OnChange ==
    /\ \E t \in Texts : question' = t
    /\ UNCHANGED <<answer, route, listening, loading, error, platform,
                   recognitionRef, sessions, utterance, calls, latest>>
    /\ UNCHANGED proxyVars

\* The "Ask Typed Question" button, disabled while loading or without a question.
OnAskTyped ==
    /\ ~loading
    /\ trim(question) # <<>>
    /\ askQuestion(question)
    /\ UNCHANGED <<question, answer, route, listening, platform,
                   recognitionRef, sessions, utterance>>
    /\ UNCHANGED proxyVars

\* How the backend call behind one of the UI's questions can settle.
UIOutcomes ==
    {TransportError}
    \cup { Outcome("ok", 200, p) :
              p \in {Unparsable, JsonNull, Obj("A1", "R1", Undefined),
                      Obj("A2", "R2", Undefined), Obj("", Undefined, Undefined)} }
    \cup { Outcome("ok", 500, p) :
              p \in {Unparsable, DetailObj("D1"), DetailObj(Undefined)} }

\* Whether the backend call behind a proxy response failed.
BackendFailed(out) ==
    out.net = "error" \/ ~Ok(out.status) \/ out.payload.kind = "unparsable"

\* The proxy's response to the question of call i when its backend call settles as out.
ProxyResponse(i, out) == POST(QuestionBody(calls[i].question), DeployedApiKey, out)

\* A variant whose loading flag is cleared on success only.
FinallyOnSuccess(i) ==
    IF calls'[i].state = "ok" THEN loading' = FALSE ELSE UNCHANGED loading

\* askQuestion, lines 72-74: finally { setLoading(false) }
Finally(i) == loading' = FALSE

\* askQuestion, lines 63-74, for call i: the fetch settles. fetched is FALSE when
\* the fetch itself rejects; otherwise resp is the proxy's response.
Settle(i, fetched, resp) ==
    LET data == resp.payload
    IN  /\ calls[i].state = "pending"
        /\ IF ~fetched
           THEN /\ error' = normalizeMessage(ErrorOf("Failed to fetch"))
                /\ calls' = [calls EXCEPT ![i].state = "failed"]
                /\ UNCHANGED <<answer, route, utterance>>
           ELSE IF ~Ok(resp.status)
           THEN /\ error' = normalizeMessage(ErrorOf(OrElse(DetailOf(data),
                                                            "Request failed.")))
                /\ calls' = [calls EXCEPT ![i].state = "failed"]
                /\ UNCHANGED <<answer, route, utterance>>
           ELSE IF data.kind # "obj"
           THEN \* data is null: reading data.answer throws a TypeError
                /\ error' = normalizeMessage(
                                ErrorOf("Cannot read properties of null"))
                /\ calls' = [calls EXCEPT ![i].state = "failed"]
                /\ UNCHANGED <<answer, route, utterance>>
           ELSE /\ answer' = OrElse(data.answer, "")
                /\ route' = OrElse(data.route, "")
                /\ IF Truthy(data.answer) THEN speak(data.answer)
                                           ELSE UNCHANGED utterance
                /\ calls' = [calls EXCEPT ![i].state = "ok"]
                /\ UNCHANGED error
        /\ Finally(i)
        /\ latest' = IF i = Len(calls) /\ fetched /\ Ok(resp.status) /\ data.kind = "obj"
                     THEN Answer(data.answer, data.route)
                     ELSE latest
        /\ UNCHANGED <<question, listening, platform, recognitionRef, sessions>>
        /\ UNCHANGED proxyVars

AskSettles ==
    \E i \in 1..Len(calls) :
        \/ Settle(i, FALSE, NoResponse)
        \/ \E out \in UIOutcomes : Settle(i, TRUE, ProxyResponse(i, out))

\* The "Start Voice Question" button: shown when not listening, disabled while loading.
onStartListening ==
    /\ ~listening
    /\ ~loading
    /\ IF ~speechSupported
       THEN /\ error' = "Speech recognition is not supported in this browser."
            /\ UNCHANGED <<recognitionRef, sessions>>
       ELSE /\ Len(sessions) < MaxSessions
            /\ error' = ""
            /\ sessions' = Append(sessions, "starting")
            /\ recognitionRef' = Len(sessions) + 1
    /\ UNCHANGED <<question, answer, route, listening, loading, platform,
                   utterance, calls, latest>>
    /\ UNCHANGED proxyVars

\* recognition.stop(): the session finishes with what it has heard so far.
stop(s) ==
    IF s # 0 /\ sessions[s] \in {"starting", "active"}
    THEN sessions' = [sessions EXCEPT ![s] = "stopping"]
    ELSE UNCHANGED sessions

\* The "Stop Listening" button, shown while listening.
onStopListening ==
    /\ listening
    /\ stop(recognitionRef)
    /\ listening' = FALSE
    /\ UNCHANGED <<question, answer, route, loading, error, platform,
                   recognitionRef, utterance, calls, latest>>
    /\ UNCHANGED proxyVars

\* recognition.onstart of session s
onstart(s) ==
    /\ sessions[s] = "starting"
    /\ sessions' = [sessions EXCEPT ![s] = "active"]
    /\ listening' = TRUE
    /\ UNCHANGED <<question, answer, route, loading, error, platform,
                   recognitionRef, utterance, calls, latest>>
    /\ UNCHANGED proxyVars

\* recognition.onerror of session s
onerror(s, code) ==
    /\ sessions[s] \in {"starting", "active", "stopping"}
    /\ sessions' = [sessions EXCEPT ![s] = "errored"]
    /\ listening' = FALSE
    /\ error' = "Voice error: " \o OrElse(code, "unknown")
    /\ UNCHANGED <<question, answer, route, loading, platform,
                   recognitionRef, utterance, calls, latest>>
    /\ UNCHANGED proxyVars

\* recognition.onend of session s
onend(s) ==
    /\ sessions[s] \in {"active", "stopping", "resulted", "errored"}
    /\ sessions' = [sessions EXCEPT ![s] = "ended"]
    /\ listening' = FALSE
    /\ UNCHANGED <<question, answer, route, loading, error, platform,
                   recognitionRef, utterance, calls, latest>>
    /\ UNCHANGED proxyVars

\* recognition.onresult of session s: the transcript, or "" when the event has none.
onresult(s, transcript) ==
    /\ sessions[s] \in {"active", "stopping"}
    /\ sessions' = [sessions EXCEPT ![s] = "resulted"]
    /\ question' = transcript
    /\ askQuestion(transcript)
    /\ UNCHANGED <<answer, route, listening, platform, recognitionRef,
                   utterance>>
    /\ UNCHANGED proxyVars

RecognizerStarts == \E s \in 1..Len(sessions) : onstart(s)
RecognizerResult == \E s \in 1..Len(sessions), transcript \in Texts : onresult(s, transcript)
RecognizerError == \E s \in 1..Len(sessions), code \in VoiceErrorCodes : onerror(s, code)
RecognizerEnds == \E s \in 1..Len(sessions) : onend(s)

\* The "Replay Audio" button of the answer box.
OnReplay ==
    /\ Truthy(answer)
    /\ speak(answer)
    /\ UNCHANGED <<question, answer, route, listening, loading, error, platform,
                   recognitionRef, sessions, calls, latest>>
    /\ UNCHANGED proxyVars

UIInit ==
    /\ question = <<>>
    /\ answer = ""
    /\ route = ""
    /\ listening = FALSE
    /\ loading = FALSE
    /\ error = ""
    /\ speechSupported \in BOOLEAN
    /\ speechSynthesis \in BOOLEAN
    /\ recognitionRef = 0
    /\ sessions = <<>>
    /\ utterance = ""
    /\ calls = <<>>
    /\ latest = NoAnswer

Init == UIInit /\ ProxyInit

\* The Voice UI, with the proxy answering each of its calls.
Next ==
    \/ OnChange
    \/ OnAskTyped
    \/ AskSettles
    \/ onStartListening
    \/ onStopListening
    \/ RecognizerStarts
    \/ RecognizerResult
    \/ RecognizerError
    \/ RecognizerEnds
    \/ OnReplay

Spec == Init /\ [][Next]_vars

\* The proxy route alone, given any request body.
NextProxy ==
    \/ ProxyReceive
    \/ ProxyBackendSettles

SpecProxy == Init /\ [][NextProxy]_vars

-----------------------------------------------------------------------------
(* Properties of the proxy route, checked under SpecProxy *)

\* A body whose question is missing, empty or whitespace-only.
BlankQuestion(body) ==
    \/ body.kind \in {"null", "missing", "qnull"}
    \/ body.kind = "str" /\ trim(body.q) = <<>>

GenericDetails == {"Invalid backend response.", "Backend request failed.",
                   "Failed to process request."}

\* C1: a request whose question is missing, empty or whitespace-only is answered
\* with status 400 and {detail: "Question is required."}, and the backend is not
\* called for it.
C1_BlankQuestionRejected ==
    (ppc # "idle" /\ BlankQuestion(pbody)) =>
        /\ ppc = "done"
        /\ presp = Response(400, DetailObj("Question is required."))
        /\ ~forwarded.made
        /\ pout = NoOutcome

\* A whitespace-only question has been answered.
C1_Witness ==
    /\ ppc = "done"
    /\ pbody = QuestionBody(<<" ", "\n">>)
    /\ presp.status = 400

\* C2: whenever the proxy responds with status 200, the backend returned a success
\* status and the response body is exactly the JSON payload the backend sent.
C2_OkRelaysBackendPayload ==
    (ppc = "done" /\ presp.status = 200) =>
        /\ pout.net = "ok"
        /\ Ok(pout.status)
        /\ pout.payload.kind \in {"obj", "null"}
        /\ presp.payload = pout.payload

\* C3: every request gets exactly one response; a backend response that is not
\* JSON yields status 500 or the backend's status, with a generic detail; a
\* malformed request body or a transport error yields status 500 with a generic
\* detail.
C3_FailuresAnswered ==
    /\ ppc = "awaitBackend" => presp = NoResponse
    /\ ppc = "done" =>
          /\ presp # NoResponse
          /\ pout.payload.kind = "unparsable" =>
                /\ presp.status \in {500, pout.status}
                /\ presp.payload.kind = "obj"
                /\ presp.payload.detail \in GenericDetails
          /\ (pbody.kind = "malformed" \/ pout.net = "error") =>
                /\ presp.status = 500
                /\ presp.payload.kind = "obj"
                /\ presp.payload.detail \in GenericDetails

-----------------------------------------------------------------------------
(* Properties of the Voice UI, checked under Spec *)

Pending(i) == calls[i].state = "pending"

\* What is on screen, lines 146-156.
ShowLoading == loading
ShowError == Truthy(error)
ShowAnswer == Truthy(answer)
Shown == (IF ShowLoading THEN {"loading"} ELSE {})
         \cup (IF ShowError THEN {"error"} ELSE {})
         \cup (IF ShowAnswer THEN {"answer"} ELSE {})

\* C4: loading is true in every state between the start of an askQuestion call and
\* its resolution, also when another call starts or resolves in between.
C4_LoadingWhilePending ==
    \A i \in 1..Len(calls) : Pending(i) => loading

\* C5 as stated: the UI shows exactly one of the loading indicator, the error
\* message and the answer box at any time.
C5_ExactlyOneShown == Cardinality(Shown) = 1

\* C5 as amended: the three are shown independently of each other (none at page
\* load, any of them together later); the loading indicator is shown only while
\* an askQuestion call is pending, and the answer box only once a call has succeeded.
C5_ShownOnlyWithCause ==
    /\ ShowLoading => \E i \in 1..Len(calls) : Pending(i)
    /\ ShowAnswer => \E i \in 1..Len(calls) : calls[i].state = "ok"

\* The indicator, an error message and an answer box are on screen together.
C5_Witness ==
    /\ Shown = {"loading", "error", "answer"}
    /\ \E i \in 1..Len(calls) : Pending(i)

\* A proxy response with status 200 carrying an answer and a route.
IsAnswer(resp) ==
    /\ resp.status = 200
    /\ resp.payload.kind = "obj"
    /\ resp.payload.answer # Undefined
    /\ resp.payload.route # Undefined

\* C6: right after a call resolves with status 200 and {answer, route}, loading is
\* false, answer and route are the response's, and error is empty, whatever
\* happened while the call was pending.
C6_SuccessLeavesNoError ==
    [][\A i \in 1..Len(calls), out \in UIOutcomes :
          (IsAnswer(ProxyResponse(i, out)) /\ Settle(i, TRUE, ProxyResponse(i, out)))
          => /\ loading' = FALSE
             /\ answer' = ProxyResponse(i, out).payload.answer
             /\ route' = ProxyResponse(i, out).payload.route
             /\ error' = ""]_vars

\* Session s delivers a result in this step (nothing else marks a session "resulted").
Results(s) == sessions[s] # "resulted" /\ sessions'[s] = "resulted"

\* C7: given an empty or whitespace-only text, askQuestion makes no network call
\* and changes no state: when a recognizer delivers a blank transcript, the handler
\* stores it as the question and its call of askQuestion changes nothing else.
C7_BlankAskIsNoop ==
    [][\A s \in 1..Len(sessions) :
          (Results(s) /\ trim(question') = <<>>)
          => /\ onresult(s, question')
             /\ UNCHANGED <<answer, route, listening, loading, error, calls, latest,
                            utterance>>]_vars

\* A recognizer has delivered a result and no question was ever submitted: the
\* transcript handed to askQuestion was blank.
C7_Witness ==
    /\ \E s \in 1..Len(sessions) : sessions[s] = "resulted"
    /\ calls = <<>>
    /\ trim(question) = <<>>

\* C8: when the backend call behind a submitted question fails (non-2xx status,
\* a body that is not JSON, or a transport error), the UI has a non-empty error
\* and loading = false once the request resolves.
C8_FailureSurfacesMessage ==
    [][\A i \in 1..Len(calls), out \in UIOutcomes :
          (BackendFailed(out) /\ Settle(i, TRUE, ProxyResponse(i, out)))
          => /\ error' # ""
             /\ loading' = FALSE]_vars

\* A handler of recognizer session s runs.
Callback(s) ==
    \/ onstart(s)
    \/ onend(s)
    \/ \E t \in Texts : onresult(s, t)
    \/ \E code \in VoiceErrorCodes : onerror(s, code)

\* C9: only the session held in recognitionRef delivers callbacks that change the
\* UI state or submit a question.
C9_OnlyCurrentSessionActs ==
    [][\A s \in 1..Len(sessions) :
          (Callback(s) /\ (View' # View \/ Len(calls') > Len(calls)))
          => s = recognitionRef]_vars

\* C10: once every askQuestion call has resolved successfully, the answer and
\* route on display are those returned for the most recently submitted question.
C10_LatestAnswerShown ==
    (calls # <<>> /\ \A i \in 1..Len(calls) : calls[i].state = "ok") =>
        /\ answer = OrElse(latest.answer, "")
        /\ route = OrElse(latest.route, "")

====
